---- MODULE Spec2Model ----
(***************************************************************************)
(* Model of _SharedTokenCacheCredential.get_token                          *)
(* (sdk/identity/azure-identity/azure/identity/_credentials/               *)
(* shared_cache.py).  A credential object holds two lazily loaded token    *)
(* caches (standard and CAE) and a token-issuing client.  get_token is     *)
(* run by one or more caller threads; each thread's position in the        *)
(* method is a program counter, and the method is cut at the points where  *)
(* it touches shared state or the network.                                 *)
(***************************************************************************)
EXTENDS Integers, Sequences, FiniteSets, TLC

\* ------------------------------------------------------------------ bounds
MaxCalls == 2
MaxTicks == 2

\* ------------------------------------------------------------ value spaces
Threads == {"t1", "t2"}
None == "None"

ClockSkew == 300

ScopeSets == {{}, {"s1"}, {"s1", "s2"}}
ClaimsValues == {None, "c1"}
TenantHints == {None, "t2"}

\* Accounts of the data model: username, tenant_id, home_account_id.
Account(home, user, tenant) ==
    [home_account_id |-> home, username |-> user, tenant_id |-> tenant]
NoAccount == Account(None, None, None)

AccessTokenEntry(secret, home, scopes, expires_on, claims) ==
    [secret |-> secret, home_account_id |-> home, target |-> scopes,
     expires_on |-> expires_on, claims |-> claims]
RefreshTokenEntry(secret, home) == [secret |-> secret, home_account_id |-> home]

\* AccessToken(token, expires_on) of azure.core.credentials
AccessToken(token, expires_on) == [token |-> token, expires_on |-> expires_on]
NoToken == AccessToken(None, 0)

\* A token cache object; present = FALSE is Python's None.  copy tells apart
\* the objects produced by successive loads of the same store.
TokenCache(accounts, ats, rts) ==
    [present |-> TRUE, copy |-> 0, accounts |-> accounts,
     access_tokens |-> ats, refresh_tokens |-> rts]
NoCache ==
    [present |-> FALSE, copy |-> 0, accounts |-> {},
     access_tokens |-> <<>>, refresh_tokens |-> <<>>]

\* Contents the persistent stores can hold.
StdSingle ==
    TokenCache({Account("alice.t1", "alice", "t1")},
               <<AccessTokenEntry("at-std-1", "alice.t1", {"s1", "s2"}, 500, None)>>,
               <<RefreshTokenEntry("rt-std-1", "alice.t1"),
                 RefreshTokenEntry("rt-std-2", "alice.t1")>>)
StdMany ==
    TokenCache({Account("alice.t1", "alice", "t1"),
                Account("alice.t2", "alice", "t2"),
                Account("bob.t1", "bob", "t1")},
               <<AccessTokenEntry("at-std-2", "alice.t1", {"s1"}, 200, None),
                 AccessTokenEntry("at-std-3", "bob.t1", {"s1"}, 700, "c1")>>,
               <<RefreshTokenEntry("rt-std-3", "bob.t1")>>)
CaeSingle ==
    TokenCache({Account("alice.t1", "alice", "t1")},
               <<AccessTokenEntry("at-cae-1", "alice.t1", {"s1"}, 700, None)>>,
               <<RefreshTokenEntry("rt-cae-1", "alice.t1")>>)
StdStores == {NoCache, StdSingle, StdMany}
CaeStores == {NoCache, CaeSingle}

\* Outcomes of a call.
Returned(token, source) ==
    [kind |-> "return", error |-> None, message |-> None,
     token |-> token, source |-> source]
Raised(error, message) ==
    [kind |-> "raise", error |-> error, message |-> message,
     token |-> NoToken, source |-> None]
Pending == [kind |-> "pending", error |-> None, message |-> None,
            token |-> NoToken, source |-> None]

NoArgs == [scopes |-> {}, claims |-> None, tenant_id |-> None, enable_cae |-> FALSE]
NoResponse == [kind |-> "none", token |-> NoToken, error |-> None]

VARIABLES
    credential,               \* class of self._credential
    self_username,            \* selector given at construction
    self_tenant_id,           \* selector given at construction
    self_cache,               \* self._cache
    self_cae_cache,           \* self._cae_cache
    self_client_initialized,  \* self._client_initialized
    store,                    \* persistent store: is_cae -> cache contents
    now,                      \* wall clock
    loads,                    \* is_cae -> number of persistent-store loads
    good_loads,               \* is_cae -> number of loads that yielded a cache
    calls,                    \* number of get_token calls started
    callers,                  \* threads that call get_token
    pc, args, token_cache, first_use, account, looked_at,
    reads, call_loads, requests, todo, response, outcome
\* call_loads: thread -> number of _initialize_cache calls of its get_token call

shared == <<credential, self_username, self_tenant_id, self_cache, self_cae_cache,
            self_client_initialized, store, now, loads, good_loads, calls, callers>>
locals == <<pc, args, token_cache, first_use, account, looked_at,
            reads, call_loads, requests, todo, response, outcome>>
vars == <<shared, locals>>

\* --------------------------------------------------- collaborators (base class)
\* self._cae_cache if is_cae else self._cache
SelectedCache(cae) == IF cae THEN self_cae_cache ELSE self_cache

\* _load_persistent_cache: reads the store, yields a new cache object or None.
LoadPersistentCache(cae) ==
    IF store[cae].present
    THEN [store[cae] EXCEPT !.copy = loads[cae] + 1]
    ELSE NoCache

\* _initialize_cache(is_cae): the guarded initialization of the selected
\* cache.  Under mutual exclusion it looks at the attribute again: a cache
\* that another caller has loaded meanwhile is reused, otherwise the store
\* is loaded and, when that yields a cache, the attribute is set.  It
\* returns the cache the attribute then holds, or None.
InitializeCache(t, cae) ==
    LET held == SelectedCache(cae)
        c == IF held.present THEN held ELSE LoadPersistentCache(cae)
    IN /\ loads' = [loads EXCEPT ![cae] = IF held.present THEN @ ELSE @ + 1]
       /\ good_loads' = [good_loads EXCEPT ![cae] =
                            IF ~held.present /\ c.present THEN @ + 1 ELSE @]
       /\ self_cache' = IF ~cae /\ c.present THEN c ELSE self_cache
       /\ self_cae_cache' = IF cae /\ c.present THEN c ELSE self_cae_cache
       /\ token_cache' = [token_cache EXCEPT ![t] = c]
       /\ call_loads' = [call_loads EXCEPT ![t] = @ + 1]

\* Accounts of the selected cache that pass the configured selectors.
FilteredAccounts(username, tenant_id, cae) ==
    {a \in SelectedCache(cae).accounts :
        /\ (username = None \/ a.username = username)
        /\ (tenant_id = None \/ a.tenant_id = tenant_id)}

\* _get_account(username, tenant_id, is_cae): exactly one match or
\* CredentialUnavailableError.
get_account(username, tenant_id, cae) ==
    LET m == FilteredAccounts(username, tenant_id, cae) IN
    IF m = {}
    THEN [ok |-> FALSE, account |-> NoAccount, message |-> "no account found"]
    ELSE IF Cardinality(m) > 1
    THEN [ok |-> FALSE, account |-> NoAccount, message |-> "multiple accounts found"]
    ELSE [ok |-> TRUE, account |-> CHOOSE a \in m : TRUE, message |-> None]

\* _get_cached_access_token(scopes, account, is_cae): the first cached access
\* token of the account that covers the scopes and outlives the safety margin.
get_cached_access_token(scopes, acct, cae) ==
    LET ats == SelectedCache(cae).access_tokens
        hits == {i \in DOMAIN ats :
                    /\ ats[i].home_account_id = acct.home_account_id
                    /\ scopes \subseteq ats[i].target
                    /\ ats[i].expires_on - ClockSkew > now}
    IN IF hits = {}
       THEN NoToken
       ELSE LET i == CHOOSE k \in hits : \A j \in hits : k <= j
            IN AccessToken(ats[i].secret, ats[i].expires_on)

\* _get_refresh_tokens(account, is_cae): the account's refresh tokens, in
\* cache order.
get_refresh_tokens(acct, cae) ==
    LET mine == SelectSeq(SelectedCache(cae).refresh_tokens,
                          LAMBDA r : r.home_account_id = acct.home_account_id)
    IN [i \in 1..Len(mine) |-> mine[i].secret]

\* What self._client.obtain_token_by_refresh_token can answer.
ExchangeResponses ==
    {[kind |-> "token", token |-> AccessToken("issued", now + 3600), error |-> None],
     [kind |-> "error", token |-> NoToken, error |-> "ClientAuthenticationError"],
     [kind |-> "error", token |-> NoToken, error |-> "ServiceRequestError"]}

\* ------------------------------------------------------------- get_token
\* Faulty variant: the scope check is missing.
ScopesMissing_never(scopes) == FALSE

\* if not scopes
ScopesMissing(scopes) == scopes = {}

\* Faulty variant: the CAE flag is dropped.
is_cae_ignored(a) == FALSE

\* is_cae = enable_cae
is_cae(a) == a.enable_cae

\* Faulty variant: _initialize_cache is called whatever the attribute held.
CacheNotLoaded_always(c) == TRUE

\* if not token_cache (the attribute read at line 124)
CacheNotLoaded(c) == ~c.present

\* Faulty variant: the result of the load is not checked.
CacheMissing_unchecked(c) == FALSE

\* if not token_cache (after the load)
CacheMissing(c) == ~c.present

\* raise CredentialUnavailableError(message="Shared token cache unavailable")
CacheUnavailable == Raised("CredentialUnavailableError", "Shared token cache unavailable")

\* Faulty variant: the call's tenant_id is taken for the configured one.
AccountSelectors_from_call(a) == <<self_username, a.tenant_id>>

\* The selectors handed to _get_account: self._username, self._tenant_id.
AccountSelectors(a) == <<self_username, self_tenant_id>>

\* Faulty variant: the cached token is never returned.
ReturnsCached_never(token) == FALSE

\* if token: return token
ReturnsCached(token) == token.token # None

\* Faulty variant: the loop starts from the last refresh token.
NextRefreshToken_last(rts) == rts[Len(rts)]

\* for refresh_token in ...: the token the loop body runs for
NextRefreshToken(rts) == Head(rts)

\* The arguments of self._client.obtain_token_by_refresh_token.
ExchangeRequest(scopes, refresh_token, claims, tenant_id) ==
    [scopes |-> scopes, refresh_token |-> refresh_token,
     claims |-> claims, tenant_id |-> tenant_id]

\* Faulty variant: a failed exchange is swallowed and the next token tried.
LoopContinues_on_error(resp, rest) == resp.kind = "error" /\ rest # <<>>

\* Whether the loop goes on to another refresh token after an exchange: the
\* body returns the token, and an exception leaves the method.
LoopContinues(resp, rest) == FALSE

\* The call's outcome after the exchange: the token returned, or the
\* client's exception as raised.
ExchangeOutcome(resp) ==
    IF resp.kind = "token"
    THEN Returned(resp.token, "exchange")
    ELSE Raised(resp.error, "from client")

\* The call ends with a return value or an exception.
Finish(t, result) ==
    /\ outcome' = [outcome EXCEPT ![t] = result]
    /\ pc' = [pc EXCEPT ![t] = "done"]

\* What SilentAuthenticationCredential.get_token can answer: its code is
\* not part of this module, so any return value or exception is possible.
SilentOutcomes ==
    {Returned(AccessToken("silent", now + 3600), "silent"),
     Raised("ValueError", "from SilentAuthenticationCredential"),
     Raised("CredentialUnavailableError", "from SilentAuthenticationCredential"),
     Raised("ClientAuthenticationError", "from SilentAuthenticationCredential")}

\* Line 85 on a credential built with an authentication record (lines
\* 38-39): the call is handed to SilentAuthenticationCredential.get_token;
\* lines 109-147 do not run.  The caller waits inside it.
get_token_delegated_call(t) ==
    /\ credential = "silent"
    /\ t \in callers
    /\ pc[t] = "idle"
    /\ calls < MaxCalls
    /\ \E sc \in ScopeSets, cl \in ClaimsValues, tn \in TenantHints, cae \in BOOLEAN :
        args' = [args EXCEPT ![t] =
                    [scopes |-> sc, claims |-> cl, tenant_id |-> tn, enable_cae |-> cae]]
    /\ calls' = calls + 1
    /\ pc' = [pc EXCEPT ![t] = "delegated"]
    /\ UNCHANGED <<credential, self_username, self_tenant_id, self_cache,
                   self_cae_cache, self_client_initialized, store, now, loads,
                   good_loads, callers>>
    /\ UNCHANGED <<token_cache, first_use, account, looked_at, reads, call_loads,
                   requests, todo, response, outcome>>

\* Line 85: SilentAuthenticationCredential.get_token answers and the answer
\* is the call's.
get_token_delegated_return(t) ==
    /\ pc[t] = "delegated"
    /\ \E result \in SilentOutcomes : Finish(t, result)
    /\ UNCHANGED shared
    /\ UNCHANGED <<args, token_cache, first_use, account, looked_at, reads,
                   call_loads, requests, todo, response>>

\* Lines 117-124: the scope check, the client's initialization and the read
\* of the selected cache attribute.
get_token_enter(t) ==
    /\ credential = "shared_cache"
    /\ t \in callers
    /\ pc[t] = "idle"
    /\ calls < MaxCalls
    /\ \E sc \in ScopeSets, cl \in ClaimsValues, tn \in TenantHints, cae \in BOOLEAN :
        LET a == [scopes |-> sc, claims |-> cl, tenant_id |-> tn, enable_cae |-> cae] IN
        /\ args' = [args EXCEPT ![t] = a]
        /\ calls' = calls + 1
        /\ IF ScopesMissing(sc)
           THEN /\ Finish(t, Raised("ValueError", "'get_token' requires at least one scope"))
                /\ UNCHANGED <<self_client_initialized, token_cache, first_use>>
           ELSE /\ self_client_initialized' = TRUE
                /\ token_cache' = [token_cache EXCEPT ![t] = SelectedCache(is_cae(a))]
                /\ first_use' = [first_use EXCEPT ![t] = ~SelectedCache(is_cae(a)).present]
                /\ pc' = [pc EXCEPT ![t] = "check_cache"]
                /\ UNCHANGED outcome
    /\ UNCHANGED <<credential, self_username, self_tenant_id, self_cache,
                   self_cae_cache, store, now, loads, good_loads, callers>>
    /\ UNCHANGED <<account, looked_at, reads, call_loads, requests, todo, response>>

\* Lines 127-132: the lazy load of the selected cache.
get_token_load(t) ==
    /\ pc[t] = "check_cache"
    /\ IF CacheNotLoaded(token_cache[t])
       THEN /\ InitializeCache(t, is_cae(args[t]))
            /\ IF CacheMissing(token_cache'[t])
               THEN Finish(t, CacheUnavailable)
               ELSE /\ pc' = [pc EXCEPT ![t] = "cache_ready"]
                    /\ UNCHANGED outcome
       ELSE /\ pc' = [pc EXCEPT ![t] = "cache_ready"]
            /\ UNCHANGED <<loads, good_loads, self_cache, self_cae_cache,
                           call_loads, token_cache, outcome>>
    /\ UNCHANGED <<credential, self_username, self_tenant_id,
                   self_client_initialized, store, now, calls, callers>>
    /\ UNCHANGED <<args, first_use, account, looked_at, reads, requests, todo, response>>

\* Lines 134-141 and 147: the account, the cached access token, the refresh
\* tokens; all are reads of the loaded cache.
get_token_lookup(t) ==
    /\ pc[t] = "cache_ready"
    /\ LET a == args[t]
           cae == is_cae(a)
           sel == AccountSelectors(a)
           found == get_account(sel[1], sel[2], cae)
           token == get_cached_access_token(a.scopes, found.account, cae)
           rts == get_refresh_tokens(found.account, cae)
       IN IF ~found.ok
          THEN /\ Finish(t, Raised("CredentialUnavailableError", found.message))
               /\ reads' = [reads EXCEPT ![t] = @ + 1]
               /\ UNCHANGED <<account, looked_at, todo>>
          ELSE /\ account' = [account EXCEPT ![t] = found.account]
               /\ looked_at' = [looked_at EXCEPT ![t] = now]
               /\ IF ReturnsCached(token)
                  THEN /\ Finish(t, Returned(token, "cache"))
                       /\ reads' = [reads EXCEPT ![t] = @ + 2]
                       /\ UNCHANGED todo
                  ELSE /\ reads' = [reads EXCEPT ![t] = @ + 3]
                       /\ IF rts = <<>>
                          THEN /\ Finish(t, Raised("CredentialUnavailableError", "NO_TOKEN"))
                               /\ UNCHANGED todo
                          ELSE /\ todo' = [todo EXCEPT ![t] = rts]
                               /\ pc' = [pc EXCEPT ![t] = "exchange"]
                               /\ UNCHANGED outcome
    /\ UNCHANGED shared
    /\ UNCHANGED <<args, token_cache, first_use, call_loads, requests, response>>

\* Lines 141-144: the loop takes a refresh token and the request goes to the
\* token-issuing client; the caller blocks until the answer.
get_token_exchange_call(t) ==
    /\ pc[t] = "exchange"
    /\ todo[t] # <<>>
    /\ LET a == args[t]
           rt == NextRefreshToken(todo[t])
       IN /\ requests' = [requests EXCEPT ![t] =
                             Append(@, ExchangeRequest(a.scopes, rt, a.claims, a.tenant_id))]
          /\ todo' = [todo EXCEPT ![t] = SelectSeq(@, LAMBDA r : r # rt)]
    /\ pc' = [pc EXCEPT ![t] = "waiting"]
    /\ UNCHANGED shared
    /\ UNCHANGED <<args, token_cache, first_use, account, looked_at, reads,
                   call_loads, response, outcome>>

\* Lines 142-145: the client answers; its token is returned, its exception
\* leaves the method.
get_token_exchange_return(t) ==
    /\ pc[t] = "waiting"
    /\ \E resp \in ExchangeResponses :
        /\ response' = [response EXCEPT ![t] = resp]
        /\ IF LoopContinues(resp, todo[t])
           THEN /\ pc' = [pc EXCEPT ![t] = "exchange"]
                /\ UNCHANGED <<todo, outcome>>
           ELSE /\ todo' = [todo EXCEPT ![t] = <<>>]
                /\ Finish(t, ExchangeOutcome(resp))
    /\ UNCHANGED shared
    /\ UNCHANGED <<args, token_cache, first_use, account, looked_at, reads,
                   call_loads, requests>>

\* The caller takes the outcome; its next call starts afresh.
get_token_exit(t) ==
    /\ pc[t] = "done"
    /\ pc' = [pc EXCEPT ![t] = "idle"]
    /\ args' = [args EXCEPT ![t] = NoArgs]
    /\ token_cache' = [token_cache EXCEPT ![t] = NoCache]
    /\ first_use' = [first_use EXCEPT ![t] = FALSE]
    /\ account' = [account EXCEPT ![t] = NoAccount]
    /\ looked_at' = [looked_at EXCEPT ![t] = 0]
    /\ reads' = [reads EXCEPT ![t] = 0]
    /\ call_loads' = [call_loads EXCEPT ![t] = 0]
    /\ requests' = [requests EXCEPT ![t] = <<>>]
    /\ todo' = [todo EXCEPT ![t] = <<>>]
    /\ response' = [response EXCEPT ![t] = NoResponse]
    /\ outcome' = [outcome EXCEPT ![t] = Pending]
    /\ UNCHANGED shared

\* time.time() advances.
Tick ==
    /\ now < MaxTicks * ClockSkew
    /\ now' = now + ClockSkew
    /\ UNCHANGED <<credential, self_username, self_tenant_id, self_cache,
                   self_cae_cache, self_client_initialized, store, loads,
                   good_loads, calls, callers>>
    /\ UNCHANGED locals

\* ------------------------------------------------------------ specifications
\* The credential after __init__: nothing loaded, no client.
InitCredential ==
    /\ self_cache = NoCache
    /\ self_cae_cache = NoCache
    /\ self_client_initialized = FALSE
    /\ now = 0
    /\ loads = [b \in BOOLEAN |-> 0]
    /\ good_loads = [b \in BOOLEAN |-> 0]
    /\ calls = 0
    /\ pc = [t \in Threads |-> "idle"]
    /\ args = [t \in Threads |-> NoArgs]
    /\ token_cache = [t \in Threads |-> NoCache]
    /\ first_use = [t \in Threads |-> FALSE]
    /\ account = [t \in Threads |-> NoAccount]
    /\ looked_at = [t \in Threads |-> 0]
    /\ reads = [t \in Threads |-> 0]
    /\ call_loads = [t \in Threads |-> 0]
    /\ requests = [t \in Threads |-> <<>>]
    /\ todo = [t \in Threads |-> <<>>]
    /\ response = [t \in Threads |-> NoResponse]
    /\ outcome = [t \in Threads |-> Pending]

\* What __init__ (lines 37-41) builds: with an authentication record a
\* SilentAuthenticationCredential, which has none of the attributes above;
\* otherwise a _SharedTokenCacheCredential over the given stores.
Constructed(usernames, tenant_ids, stds, caes) ==
    \/ /\ credential = "shared_cache"
       /\ self_username \in usernames
       /\ self_tenant_id \in tenant_ids
       /\ \E std \in stds, cae \in caes :
             store = [b \in BOOLEAN |-> IF b THEN cae ELSE std]
    \/ /\ credential = "silent"
       /\ self_username = None
       /\ self_tenant_id = None
       /\ store = [b \in BOOLEAN |-> NoCache]

\* One caller, any selectors, any store contents.
Init ==
    /\ InitCredential
    /\ callers = {"t1"}
    /\ Constructed({None, "alice", "bob"}, {None, "t1", "t2"}, StdStores, CaeStores)

\* Several callers sharing one credential that was built without selectors;
\* the standard store may be absent, the CAE store is.
InitConcurrent ==
    /\ InitCredential
    /\ callers = Threads
    /\ Constructed({None}, {None}, {NoCache, StdSingle}, {NoCache})

Next ==
    \/ \E t \in Threads : get_token_delegated_call(t)
    \/ \E t \in Threads : get_token_delegated_return(t)
    \/ \E t \in Threads : get_token_enter(t)
    \/ \E t \in Threads : get_token_load(t)
    \/ \E t \in Threads : get_token_lookup(t)
    \/ \E t \in Threads : get_token_exchange_call(t)
    \/ \E t \in Threads : get_token_exchange_return(t)
    \/ \E t \in Threads : get_token_exit(t)
    \/ Tick

Spec == Init /\ [][Next]_vars
SpecConcurrent == InitConcurrent /\ [][Next]_vars

\* ------------------------------------------------------------------ claims
\* The claims are about get_token of _SharedTokenCacheCredential (lines
\* 109-147): the credential built without an authentication record.
SharedCache == credential = "shared_cache"

\* The contents of the store a call's CAE flag selects.
StoreOf(t) == store[args[t].enable_cae]

\* The accounts of that store that pass the configured selectors.
Matches(t) ==
    {a \in StoreOf(t).accounts :
        /\ (self_username = None \/ a.username = self_username)
        /\ (self_tenant_id = None \/ a.tenant_id = self_tenant_id)}

\* The access tokens of that store, held by a matching account, that cover
\* the requested scopes and outlive the safety margin when looked up.
ValidEntries(t) ==
    {e \in {StoreOf(t).access_tokens[i] : i \in DOMAIN StoreOf(t).access_tokens} :
        /\ \E a \in Matches(t) : a.home_account_id = e.home_account_id
        /\ args[t].scopes \subseteq e.target
        /\ e.expires_on - ClockSkew > looked_at[t]}

\* The refresh tokens of that store held by a matching account, in order.
OwnRefreshTokens(t) ==
    SelectSeq(StoreOf(t).refresh_tokens,
              LAMBDA r : \E a \in Matches(t) : a.home_account_id = r.home_account_id)

Secrets(entries) == {entries[i].secret : i \in DOMAIN entries}

\* The call of t ran with scopes and has left the lazy load behind.
PastLoad(t) ==
    /\ SharedCache
    /\ pc[t] \in {"cache_ready", "exchange", "waiting", "done"}
    /\ args[t].scopes # {}

\* C1: a call with an empty scope set fails with ValueError and performs no
\* cache load, no cache read and no token-exchange call, whatever the other
\* arguments and the state of the caches.
C1_EmptyScopesRejected ==
    \A t \in Threads :
        (SharedCache /\ pc[t] # "idle" /\ args[t].scopes = {}) =>
            /\ pc[t] = "done"
            /\ outcome[t].kind = "raise"
            /\ outcome[t].error = "ValueError"
            /\ call_loads[t] = 0
            /\ reads[t] = 0
            /\ requests[t] = <<>>
            /\ ~token_cache[t].present

C1_Witness ==
    \E t \in Threads :
        /\ pc[t] = "done"
        /\ args[t].scopes = {}
        /\ args[t].claims # None
        /\ outcome[t].error = "ValueError"
        /\ StoreOf(t).present
        /\ ~SelectedCache(args[t].enable_cae).present

\* C2: with non-empty scopes, when the selected cache is not yet loaded and
\* the load yields no cache, the call fails with CredentialUnavailableError
\* and makes no token-exchange call.
C2_UnloadableCacheUnavailable ==
    \A t \in Threads :
        (PastLoad(t) /\ first_use[t] /\ ~StoreOf(t).present) =>
            /\ pc[t] = "done"
            /\ outcome[t] = Raised("CredentialUnavailableError",
                                   "Shared token cache unavailable")
            /\ requests[t] = <<>>

C2_Witness ==
    \E t \in Threads :
        /\ pc[t] = "done"
        /\ args[t].scopes # {}
        /\ first_use[t]
        /\ call_loads[t] = 1
        /\ ~StoreOf(t).present
        /\ outcome[t].error = "CredentialUnavailableError"

\* C3: when exactly one account matches the selectors and it has a valid
\* cached access token covering the scopes, the call returns that cached
\* token and makes no exchange call, even when the account has refresh tokens.
C3_CachedTokenReturned ==
    \A t \in Threads :
        (SharedCache /\ pc[t] \in {"exchange", "waiting", "done"}
            /\ args[t].scopes # {} /\ StoreOf(t).present
            /\ Cardinality(Matches(t)) = 1 /\ ValidEntries(t) # {}) =>
            /\ pc[t] = "done"
            /\ outcome[t].kind = "return"
            /\ outcome[t].source = "cache"
            /\ \E e \in ValidEntries(t) :
                  outcome[t].token = AccessToken(e.secret, e.expires_on)
            /\ requests[t] = <<>>

C3_Witness ==
    \E t \in Threads :
        /\ pc[t] = "done"
        /\ Cardinality(Matches(t)) = 1
        /\ ValidEntries(t) # {}
        /\ Len(OwnRefreshTokens(t)) >= 2
        /\ outcome[t].source = "cache"
        /\ requests[t] = <<>>

\* C4: when the resolved account has no valid cached access token but has
\* refresh tokens, the exchange is invoked exactly once, with the first
\* refresh token and the requested scopes, and its result is the call's result.
C4_OneExchangeWithFirstRefreshToken ==
    \A t \in Threads :
        (SharedCache /\ pc[t] = "done" /\ args[t].scopes # {} /\ StoreOf(t).present
            /\ Cardinality(Matches(t)) = 1 /\ ValidEntries(t) = {}
            /\ OwnRefreshTokens(t) # <<>>) =>
            /\ Len(requests[t]) = 1
            /\ requests[t][1].refresh_token = OwnRefreshTokens(t)[1].secret
            /\ requests[t][1].scopes = args[t].scopes
            /\ response[t].kind = "token" =>
                  outcome[t] = Returned(response[t].token, "exchange")
            /\ response[t].kind # "token" =>
                  (outcome[t].kind = "raise" /\ outcome[t].error = response[t].error)

C4_Witness ==
    \E t \in Threads :
        /\ pc[t] = "done"
        /\ Cardinality(Matches(t)) = 1
        /\ ValidEntries(t) = {}
        /\ Len(OwnRefreshTokens(t)) >= 2
        /\ \E i \in DOMAIN StoreOf(t).access_tokens :
              StoreOf(t).access_tokens[i].expires_on <= looked_at[t]
        /\ Len(requests[t]) = 1
        /\ outcome[t].kind = "return"
        /\ outcome[t].source = "exchange"

\* C5: the standard and the CAE cache are independent: each call loads,
\* resolves the account, looks up and exchanges in the cache its CAE flag
\* selects only, after any earlier calls.
C5_CachesIndependent ==
    /\ self_cache.present =>
          [self_cache EXCEPT !.copy = 0] = store[FALSE]
    /\ self_cae_cache.present =>
          [self_cae_cache EXCEPT !.copy = 0] = store[TRUE]
    /\ \A t \in Threads :
        /\ token_cache[t].present =>
              [token_cache[t] EXCEPT !.copy = 0] = StoreOf(t)
        /\ account[t] # NoAccount => account[t] \in StoreOf(t).accounts
        /\ outcome[t].source = "cache" =>
              /\ outcome[t].token.token \in Secrets(StoreOf(t).access_tokens)
              /\ outcome[t].token.token
                    \notin Secrets(store[~args[t].enable_cae].access_tokens)
        /\ \A i \in DOMAIN requests[t] :
              /\ requests[t][i].refresh_token \in Secrets(StoreOf(t).refresh_tokens)
              /\ requests[t][i].refresh_token
                    \notin Secrets(store[~args[t].enable_cae].refresh_tokens)

C5_Witness ==
    \E t \in Threads :
        /\ pc[t] = "done"
        /\ args[t].enable_cae
        /\ self_cache.present
        /\ self_cache.access_tokens # <<>>
        /\ outcome[t].source = "cache"
        /\ calls >= 2

C7_AccountMustBeUnique ==
    \A t \in Threads :
        (SharedCache /\ pc[t] \in {"exchange", "waiting", "done"}
            /\ args[t].scopes # {} /\ StoreOf(t).present
            /\ Cardinality(Matches(t)) # 1) =>
            /\ pc[t] = "done"
            /\ outcome[t].kind = "raise"
            /\ outcome[t].error = "CredentialUnavailableError"
            /\ outcome[t].token = NoToken
            /\ reads[t] = 1
            /\ requests[t] = <<>>

C7_Witness ==
    \E t \in Threads :
        /\ pc[t] = "done"
        /\ args[t].scopes # {}
        /\ self_username # None
        /\ Cardinality(Matches(t)) >= 2
        /\ outcome[t].error = "CredentialUnavailableError"

\* C8: the tenant_id argument is not used: two calls that start from the
\* same state and differ only in tenant_id end the same way and call the
\* token-issuing client with the same arguments.
C8_TenantIdIgnored ==
    \A t, u \in Threads :
        (/\ SharedCache
         /\ pc[t] = "done" /\ pc[u] = "done"
         /\ args[t].scopes = args[u].scopes
         /\ args[t].claims = args[u].claims
         /\ args[t].enable_cae = args[u].enable_cae
         /\ looked_at[t] = looked_at[u]
         /\ response[t] = response[u]) =>
            /\ outcome[t] = outcome[u]
            /\ requests[t] = requests[u]

\* C9: a cached access token is returned only if its scope set covers the
\* requested scopes, its claims match the claims of the request and its
\* expiry is in the future; a request that carries claims never gets a
\* cached token whose claims differ.
C9_CachedTokenMatchesRequest ==
    \A t \in Threads :
        (SharedCache /\ pc[t] = "done" /\ outcome[t].source = "cache") =>
            \E i \in DOMAIN StoreOf(t).access_tokens :
                LET e == StoreOf(t).access_tokens[i] IN
                /\ outcome[t].token = AccessToken(e.secret, e.expires_on)
                /\ args[t].scopes \subseteq e.target
                /\ e.expires_on > looked_at[t]
                /\ args[t].claims # None => e.claims = args[t].claims

\* C10: when the exchange of the first refresh token fails, the call fails
\* with that same error; the exchange is not retried and no second refresh
\* token is tried, so a call makes at most one exchange call.
C10_ExchangeErrorPropagates ==
    \A t \in Threads :
        /\ Len(requests[t]) <= 1
        /\ (SharedCache /\ pc[t] = "done" /\ response[t].kind = "error") =>
              /\ outcome[t].kind = "raise"
              /\ outcome[t].error = response[t].error
              /\ outcome[t].error # "CredentialUnavailableError"
              /\ Len(requests[t]) = 1
        /\ (pc[t] \in {"exchange", "waiting"} /\ response[t].kind = "error") => FALSE

C10_Witness ==
    \E t \in Threads :
        /\ pc[t] = "done"
        /\ response[t].kind = "error"
        /\ Len(OwnRefreshTokens(t)) >= 2
        /\ outcome[t].error = "ServiceRequestError"
        /\ Len(requests[t]) = 1
====
